---- MODULE Spec2Model ----
(***************************************************************************)
(* Model of zemen/converters.py: conversions between Gregorian dates,      *)
(* Julian Day Numbers (JDN) and Ethiopian dates.                           *)
(*                                                                         *)
(* The module is stateless; the state of the model is the last call made   *)
(* on it: the function called, its arguments and what it returned or       *)
(* raised.                                                                 *)
(*                                                                         *)
(* An argument is a Python int, which has no width, while datetime.date    *)
(* converts what it is given to a C int.  A Python int is kept as a pair   *)
(* <<w, v>> that stands for w * 2^31 + v: <<0, v>> is a value that fits a  *)
(* C int, <<1, v>> with v >= 0 a value from 2^31 to 2^32 - 1 and <<-1, v>> *)
(* with v < 0 a value from -2^32 to -2^31 - 1.                             *)
(*                                                                         *)
(* A returned value is a sequence of integers: <<jdn>> for a JDN,          *)
(* <<year, month, day>> for a date (datetime.date or tuple), <<>> for      *)
(* None.  A raised exception is kept with its type and message.            *)
(***************************************************************************)
EXTENDS Integers, Sequences, FiniteSets, TLC

VARIABLES fn, args, ret

vars == <<fn, args, ret>>

(***************************************************************************)
(* Outcomes of a call.                                                     *)
(***************************************************************************)
Return(v) == [ok |-> TRUE, val |-> v, exc |-> "", msg |-> ""]

Raise(e, m) == [ok |-> FALSE, val |-> <<>>, exc |-> e, msg |-> m]

None == <<>>

(***************************************************************************)
(* Python ints, and the operations the module applies to them.             *)
(***************************************************************************)
INT_MAX == 2147483647

INT_MIN == (-INT_MAX) - 1

PyInt(n) == <<0, n>>

FitsCInt(x) == x[1] = 0

\* x < c, for a c that fits a C int
PyLess(x, c) == IF x[1] = 0 THEN x[2] < c ELSE x[1] < 0

\* x - c, for a c in 0..INT_MAX and an x >= INT_MIN + c
PySub(x, c) ==
    IF x[1] = 0 THEN PyInt(x[2] - c)
    ELSE IF x[2] >= c THEN <<1, x[2] - c>>
    ELSE PyInt(((INT_MAX - c) + 1) + x[2])

\* x // c and x % c, for an x >= INT_MIN and a c in 1..INT_MAX
PyFloorDiv(x, c) ==
    IF x[1] = 0 THEN x[2] \div c
    ELSE (INT_MAX \div c) + (x[2] \div c)
           + (((INT_MAX % c) + 1 + (x[2] % c)) \div c)

PyMod(x, c) ==
    IF x[1] = 0 THEN x[2] % c
    ELSE ((INT_MAX % c) + 1 + (x[2] % c)) % c

\* The conversion of an argument to a C int (format "i").
AsCInt(x) ==
    IF x[1] = 0 THEN Return(<<x[2]>>)
    ELSE IF x[1] > 0
    THEN Raise("OverflowError", "signed integer is greater than maximum")
    ELSE Raise("OverflowError", "signed integer is less than minimum")

(***************************************************************************)
(* datetime.date, as the module uses it: the constructor's validation,     *)
(* toordinal() and fromordinal(), computed the way CPython computes them.  *)
(***************************************************************************)
MINYEAR == 1

MAXYEAR == 9999

DAYS_IN_MONTH == <<31, 28, 31, 30, 31, 30, 31, 31, 30, 31, 30, 31>>

DAYS_BEFORE_MONTH == <<0, 31, 59, 90, 120, 151, 181, 212, 243, 273, 304, 334>>

\* Mutant: the Julian rule, every fourth year is a leap year.
_is_leap_julian(year) == year % 4 = 0

_is_leap(year) == year % 4 = 0 /\ (year % 100 # 0 \/ year % 400 = 0)

_days_before_year(year) ==
    LET y == year - 1
    IN  y * 365 + (y \div 4) - (y \div 100) + (y \div 400)

_days_in_month(year, month) ==
    IF month = 2 /\ _is_leap(year) THEN 29 ELSE DAYS_IN_MONTH[month]

_days_before_month(year, month) ==
    DAYS_BEFORE_MONTH[month] + (IF month > 2 /\ _is_leap(year) THEN 1 ELSE 0)

_ymd2ord(year, month, day) ==
    _days_before_year(year) + _days_before_month(year, month) + day

\* The validation of three C ints: the message of the ValueError, "" if none.
_check_date_fields(year, month, day) ==
    IF year < MINYEAR \/ year > MAXYEAR
    THEN "year " \o ToString(year) \o " is out of range"
    ELSE IF month < 1 \/ month > 12
    THEN "month must be in 1..12"
    ELSE IF day < 1 \/ day > _days_in_month(year, month)
    THEN "day is out of range for month"
    ELSE ""

\* date(year, month, day): the arguments are converted in turn, then
\* validated.
date_new(year, month, day) ==
    IF ~AsCInt(year).ok THEN AsCInt(year)
    ELSE IF ~AsCInt(month).ok THEN AsCInt(month)
    ELSE IF ~AsCInt(day).ok THEN AsCInt(day)
    ELSE IF _check_date_fields(year[2], month[2], day[2]) # ""
    THEN Raise("ValueError", _check_date_fields(year[2], month[2], day[2]))
    ELSE Return(<<year[2], month[2], day[2]>>)

DI400Y == _days_before_year(401)

DI100Y == _days_before_year(101)

DI4Y == _days_before_year(5)

MAXORDINAL == _ymd2ord(MAXYEAR, 12, 31)

_ord2ymd(ordinal) ==
    LET n0   == ordinal - 1
        n400 == n0 \div DI400Y
        na   == n0 % DI400Y
        n100 == na \div DI100Y
        nb   == na % DI100Y
        n4   == nb \div DI4Y
        nc   == nb % DI4Y
        n1   == nc \div 365
        n    == nc % 365
        year == n400 * 400 + 1 + n100 * 100 + n4 * 4 + n1
    IN  IF n1 = 4 \/ n100 = 4
        THEN <<year - 1, 12, 31>>
        ELSE LET leapyear == n1 = 3 /\ (n4 # 24 \/ n100 = 3)
                 month0   == (n + 50) \div 32
                 prec0    == DAYS_BEFORE_MONTH[month0]
                               + (IF month0 > 2 /\ leapyear THEN 1 ELSE 0)
                 month    == IF prec0 > n THEN month0 - 1 ELSE month0
                 prec     == IF prec0 > n
                             THEN prec0 - (DAYS_IN_MONTH[month]
                                   + (IF month = 2 /\ leapyear THEN 1 ELSE 0))
                             ELSE prec0
             IN  <<year, month, n - prec + 1>>

\* date.fromordinal(ordinal): the argument is converted, then validated.
date_fromordinal(ordinal) ==
    IF ~AsCInt(ordinal).ok THEN AsCInt(ordinal)
    ELSE IF ordinal[2] < 1
    THEN Raise("ValueError", "ordinal must be >= 1")
    ELSE IF ordinal[2] > MAXORDINAL
    THEN Raise("ValueError",
               "year " \o ToString(_ord2ymd(ordinal[2])[1]) \o " is out of range")
    ELSE Return(_ord2ymd(ordinal[2]))

(***************************************************************************)
(* converters.py                                                           *)
(***************************************************************************)
JDN_GREG_OFFSET == 1721425

JDN_ETH_OFFSET == 1723856

InvalidDate == "Invalid date for Gregorian calendar"

InvalidJdn == "Invalid Julian Day Number"

\* try: date(year, month, day) / except ValueError: raise ValueError(...).
\* An exception of another type is not caught.
TryDate(year, month, day) ==
    LET d == date_new(year, month, day)
    IN  IF ~d.ok /\ d.exc = "ValueError" THEN Raise("ValueError", InvalidDate)
        ELSE d

\* Mutant: the offset is one less than the one jdn_to_greg subtracts.
_greg_to_jdn_offset_low(year, month, day) ==
    LET d == TryDate(year, month, day)
    IN  IF ~d.ok THEN d
        ELSE Return(<<_ymd2ord(d.val[1], d.val[2], d.val[3]) + JDN_GREG_OFFSET - 1>>)

_greg_to_jdn(year, month, day) ==
    LET d == TryDate(year, month, day)
    IN  IF ~d.ok THEN d
        ELSE Return(<<_ymd2ord(d.val[1], d.val[2], d.val[3]) + JDN_GREG_OFFSET>>)

\* Mutant: the guard also rejects the offset itself (<= for <).
jdn_to_greg_guard_le(jdn) ==
    IF PyLess(jdn, JDN_GREG_OFFSET + 1)
    THEN Raise("ValueError", InvalidJdn)
    ELSE date_fromordinal(PySub(jdn, JDN_GREG_OFFSET))

\* Mutant: the date of the day after.
jdn_to_greg_shifted(jdn) ==
    IF PyLess(jdn, JDN_GREG_OFFSET)
    THEN Raise("ValueError", InvalidJdn)
    ELSE date_fromordinal(PySub(jdn, JDN_GREG_OFFSET - 1))

jdn_to_greg(jdn) ==
    IF PyLess(jdn, JDN_GREG_OFFSET)
    THEN Raise("ValueError", InvalidJdn)
    ELSE date_fromordinal(PySub(jdn, JDN_GREG_OFFSET))

\* jdn - JDN_ETH_OFFSET
EthD(jdn) == PySub(jdn, JDN_ETH_OFFSET)

\* r = (jdn - JDN_ETH_OFFSET) % 1461
EthR(jdn) == PyMod(EthD(jdn), 1461)

\* Mutant: the leap day correction starts a year early.
EthN_early(r) == (r % 365) + (365 * (r \div 1095))

\* n = (r % 365) + (365 * (r // 1460))
EthN(r) == (r % 365) + (365 * (r \div 1460))

\* Mutant: the leap day is given to the year after.
EthYear_nocorr(jdn, r) ==
    4 * PyFloorDiv(EthD(jdn), 1461) + (r \div 365)

\* year = 4 * ((jdn - JDN_ETH_OFFSET) // 1461) + (r // 365) - (r // 1460)
EthYear(jdn, r) ==
    4 * PyFloorDiv(EthD(jdn), 1461) + (r \div 365) - (r \div 1460)

\* month = n // 30 + 1
EthMonth(n) == (n \div 30) + 1

\* day = n % 30 + 2
EthDay(n) == (n % 30) + 2

\* Mutant: the guard compares with the Ethiopian offset.
_eth_from_jdn_guard_eth(jdn) ==
    IF PyLess(jdn, JDN_ETH_OFFSET)
    THEN Raise("ValueError", InvalidJdn)
    ELSE LET r == EthR(jdn)
             n == EthN(r)
         IN  Return(<<EthYear(jdn, r), EthMonth(n), EthDay(n)>>)

_eth_from_jdn(jdn) ==
    IF PyLess(jdn, JDN_GREG_OFFSET)
    THEN Raise("ValueError", InvalidJdn)
    ELSE LET r == EthR(jdn)
             n == EthN(r)
         IN  Return(<<EthYear(jdn, r), EthMonth(n), EthDay(n)>>)

eth_from_greg(year, month, day) ==
    LET jdn == _greg_to_jdn(year, month, day)
    IN  IF jdn.ok THEN _eth_from_jdn(PyInt(jdn.val[1])) ELSE jdn

\* The body of eth_to_greg is its docstring: it returns None.
eth_to_greg(year, month, day) == Return(None)

(***************************************************************************)
(* The arguments the calls are made with.                                  *)
(***************************************************************************)
MaxMonthArg == 13

MaxDayArg == 32

LowMargin == 3

LowSpan == 1700

MidSpan == 400

HighMargin == 3

WideMargin == 2

\* Python ints at and beyond the ends of the C int range.
EdgeInts == {PyInt(INT_MIN), PyInt(INT_MAX), <<1, 0>>, <<-1, -1>>, <<1, 7>>}

SmallYears == {-1, 0, 1, 4, 100, 400, 1900, 2000, 2015, 2016, 2023, 9999, 10000}

GregYears == {PyInt(y) : y \in SmallYears} \cup EdgeInts

GregMonths == {PyInt(m) : m \in 0..MaxMonthArg} \cup {<<1, 0>>, <<-1, -1>>}

GregDays == {PyInt(d) : d \in 0..MaxDayArg} \cup {<<1, 0>>, <<-1, -1>>}

MidJdn == _ymd2ord(2015, 9, 11) + JDN_GREG_OFFSET

MaxJdn == MAXORDINAL + JDN_GREG_OFFSET

JdnArgs ==
    {PyInt(j) : j \in ((JDN_GREG_OFFSET - LowMargin)..(JDN_GREG_OFFSET + LowSpan))
                    \cup ((MidJdn - MidSpan)..(MidJdn + MidSpan))
                    \cup ((MaxJdn - HighMargin)..(MaxJdn + HighMargin))
                    \cup {INT_MAX - k : k \in 0..WideMargin}}
    \cup {<<1, v>> : v \in (0..WideMargin)
                    \cup ((JDN_GREG_OFFSET - WideMargin)..(JDN_GREG_OFFSET + WideMargin))
                    \cup ((JDN_ETH_OFFSET - WideMargin)..(JDN_ETH_OFFSET + WideMargin))}
    \cup {PyInt(INT_MIN), <<-1, -1>>, <<-1, INT_MIN>>}

EthYears == {PyInt(2007), PyInt(2008)}

EthMonths == {PyInt(m) : m \in 1..MaxMonthArg}

EthDays == {PyInt(d) : d \in 1..30}

(***************************************************************************)
(* The calls.  The functions share no state, so a call depends on no       *)
(* other call: a behaviour is the import of the module and one call.       *)
(***************************************************************************)
Init ==
    /\ fn = "import"
    /\ args = <<>>
    /\ ret = Return(None)

NoCallYet == fn = "import"

Call_greg_to_jdn ==
    /\ NoCallYet
    /\ \E y \in GregYears, m \in GregMonths, d \in GregDays :
           /\ fn' = "_greg_to_jdn"
           /\ args' = <<y, m, d>>
           /\ ret' = _greg_to_jdn(y, m, d)

Call_jdn_to_greg ==
    /\ NoCallYet
    /\ \E j \in JdnArgs :
           /\ fn' = "jdn_to_greg"
           /\ args' = <<j>>
           /\ ret' = jdn_to_greg(j)

Call_eth_from_jdn ==
    /\ NoCallYet
    /\ \E j \in JdnArgs :
           /\ fn' = "_eth_from_jdn"
           /\ args' = <<j>>
           /\ ret' = _eth_from_jdn(j)

Call_eth_from_greg ==
    /\ NoCallYet
    /\ \E y \in GregYears, m \in GregMonths, d \in GregDays :
           /\ fn' = "eth_from_greg"
           /\ args' = <<y, m, d>>
           /\ ret' = eth_from_greg(y, m, d)

Call_eth_to_greg ==
    /\ NoCallYet
    /\ \E y \in EthYears, m \in EthMonths, d \in EthDays :
           /\ fn' = "eth_to_greg"
           /\ args' = <<y, m, d>>
           /\ ret' = eth_to_greg(y, m, d)

Next ==
    \/ Call_greg_to_jdn
    \/ Call_jdn_to_greg
    \/ Call_eth_from_jdn
    \/ Call_eth_from_greg
    \/ Call_eth_to_greg

Spec == Init /\ [][Next]_vars

(***************************************************************************)
(* The calendar rules the properties are stated with, written from the     *)
(* rules themselves and not from the code above.  They are rules of        *)
(* integers: Vals gives the integers of arguments that fit a C int.        *)
(***************************************************************************)
AllFit(a) == \A i \in 1..Len(a) : a[i][1] = 0

Vals(a) == [i \in 1..Len(a) |-> a[i][2]]

Date(y, m, d) == <<PyInt(y), PyInt(m), PyInt(d)>>

\* x < c and x in a..b, for a Python int x and integers a, b, c
Lt(x, c) == x[1] < 0 \/ (x[1] = 0 /\ x[2] < c)

Between(x, a, b) == x[1] = 0 /\ x[2] \in a..b

\* x + k, for a Python int x >= -2^31 - k and a small integer k
Shift(x, k) ==
    IF x[1] = 0
    THEN IF k > 0 /\ x[2] > INT_MAX - k
         THEN <<1, (x[2] - INT_MAX) + (k - 1)>>
         ELSE PyInt(x[2] + k)
    ELSE IF x[2] + k < 0 THEN PyInt((INT_MAX + (x[2] + k)) + 1)
    ELSE <<1, x[2] + k>>

LeapRule(y) == y % 4 = 0 /\ (y % 100 # 0 \/ y % 400 = 0)

MonthLength(y, m) ==
    IF m = 2 THEN (IF LeapRule(y) THEN 29 ELSE 28)
    ELSE IF m \in {4, 6, 9, 11} THEN 30 ELSE 31

RealDate(d) == d[2] \in 1..12 /\ d[3] \in 1..MonthLength(d[1], d[2])

InDateRange(d) == d[1] \in 1..9999

NextDay(d) ==
    IF d[3] < MonthLength(d[1], d[2]) THEN <<d[1], d[2], d[3] + 1>>
    ELSE IF d[2] < 12 THEN <<d[1], d[2] + 1, 1>>
    ELSE <<d[1] + 1, 1, 1>>

\* Leap years among the years 1..y-1, counted one by one.
LeapYearsBefore == [y \in SmallYears |-> Cardinality({k \in 1..(y - 1) : LeapRule(k)})]

RECURSIVE DaysInMonthsBefore(_, _)
DaysInMonthsBefore(y, m) ==
    IF m <= 1 THEN 0 ELSE MonthLength(y, m - 1) + DaysInMonthsBefore(y, m - 1)

\* Ordinal day count, 0001-01-01 being day 1.
CountedOrdinal(d) ==
    365 * (d[1] - 1) + LeapYearsBefore[d[1]] + DaysInMonthsBefore(d[1], d[2]) + d[3]

EthLeapRule(y) == (y + 1) % 4 = 0

(***************************************************************************)
(* C1                                                                      *)
(***************************************************************************)
\* C1 (as amended): for every real Gregorian date with 1 <= year <= 9999,
\* jdn_to_greg(_greg_to_jdn(y, m, d)) is the date (y, m, d), and for every JDN
\* j that jdn_to_greg accepts, _greg_to_jdn of the date it returns is j.
C1_RoundTripInRange ==
    /\ (/\ fn = "_greg_to_jdn"
        /\ AllFit(args) /\ RealDate(Vals(args)) /\ InDateRange(Vals(args)))
          => (ret.ok /\ jdn_to_greg(PyInt(ret.val[1])) = Return(Vals(args)))
    /\ (fn = "jdn_to_greg" /\ ret.ok)
          => /\ AllFit(args)
             /\ _greg_to_jdn(PyInt(ret.val[1]), PyInt(ret.val[2]), PyInt(ret.val[3]))
                   = Return(Vals(args))

\* C1 (as stated): the same for every real Gregorian date with year >= 1
\* (stated of the years that fit a C int).
C1_RoundTripAnyYear ==
    /\ (/\ fn = "_greg_to_jdn"
        /\ AllFit(args) /\ RealDate(Vals(args)) /\ args[1][2] >= 1)
          => (ret.ok /\ jdn_to_greg(PyInt(ret.val[1])) = Return(Vals(args)))
    /\ (fn = "jdn_to_greg" /\ ret.ok)
          => /\ AllFit(args)
             /\ _greg_to_jdn(PyInt(ret.val[1]), PyInt(ret.val[2]), PyInt(ret.val[3]))
                   = Return(Vals(args))

C1_Witness ==
    /\ fn = "_greg_to_jdn"
    /\ args = Date(2000, 2, 29)
    /\ ret.ok
    /\ jdn_to_greg(PyInt(ret.val[1])) = Return(<<2000, 2, 29>>)

(***************************************************************************)
(* C2                                                                      *)
(***************************************************************************)
\* C2: eth_from_greg of the Gregorian date 2015-09-11 returns (2008, 1, 1).
C2_NewYear2008 ==
    (fn = "eth_from_greg" /\ args = Date(2015, 9, 11))
        => ret = Return(<<2008, 1, 1>>)

(***************************************************************************)
(* C3                                                                      *)
(***************************************************************************)
\* C3 (as amended): _greg_to_jdn fails exactly when the year is outside
\* 1..9999, the month is outside 1..12 or the day is outside
\* 1..days-in-month (February has 29 days only in years divisible by 4 and
\* not by 100 unless by 400), and succeeds otherwise.  It fails with the
\* invalid-date error when year, month and day all fit a C int
\* (-2^31..2^31-1), and with OverflowError when one of them does not.
C3_FailsIffNotADate ==
    fn = "_greg_to_jdn" =>
        /\ ~ret.ok <=>
              ~(AllFit(args) /\ InDateRange(Vals(args)) /\ RealDate(Vals(args)))
        /\ (~ret.ok /\ AllFit(args))
              => (ret.exc = "ValueError" /\ ret.msg = InvalidDate)
        /\ ~AllFit(args) => ret.exc = "OverflowError"
        /\ args = Date(2000, 2, 29) => ret.ok
        /\ args \in {Date(1900, 2, 29), Date(2023, 2, 30)} => ~ret.ok

\* C3 (as stated): _greg_to_jdn fails, with the invalid-date error, exactly
\* when the month is outside 1..12 or the day is outside 1..days-in-month
\* (stated of the arguments that fit a C int).
C3_FailsIffNotReal ==
    (fn = "_greg_to_jdn" /\ AllFit(args)) =>
        /\ ~ret.ok <=> ~RealDate(Vals(args))
        /\ ~ret.ok => (ret.exc = "ValueError" /\ ret.msg = InvalidDate)

C3_Witness ==
    /\ fn = "_greg_to_jdn"
    /\ args = Date(1900, 2, 29)
    /\ ~ret.ok
    /\ ret.msg = InvalidDate

(***************************************************************************)
(* C4                                                                      *)
(***************************************************************************)
\* C4 (as amended): jdn_to_greg raises its invalid-JDN error if and only if
\* jdn < 1721425; it also fails, inside date.fromordinal, at jdn = 1721425
\* and for jdn > 5373484 (with ValueError, and with OverflowError once
\* jdn - 1721425 exceeds 2^31 - 1); for every jdn in 1721426..5373484 it
\* succeeds and returns a Gregorian date whose year is in 1..9999.
C4_FailureRange ==
    fn = "jdn_to_greg" =>
        LET j == args[1]
            beyond == j[1] = 1 /\ j[2] >= 1721425
        IN  /\ ret.msg = InvalidJdn <=> Lt(j, 1721425)
            /\ ret.ok <=> Between(j, 1721426, 5373484)
            /\ ~ret.ok =>
                  ret.exc = (IF beyond THEN "OverflowError" ELSE "ValueError")
            /\ ret.ok => (ret.val[1] \in 1..9999 /\ RealDate(ret.val))

\* C4 (as stated): jdn_to_greg fails with the invalid-JDN error if and only if
\* jdn < 1721425, and for every jdn >= 1721425 it succeeds with a year >= 1.
C4_FailsIffBelowOffset ==
    fn = "jdn_to_greg" =>
        /\ (~ret.ok /\ ret.msg = InvalidJdn) <=> Lt(args[1], 1721425)
        /\ ~Lt(args[1], 1721425) => (ret.ok /\ ret.val[1] >= 1)

C4_Witness ==
    /\ fn = "jdn_to_greg"
    /\ args = <<PyInt(1721425)>>
    /\ ~ret.ok
    /\ ret.msg # InvalidJdn

(***************************************************************************)
(* C5                                                                      *)
(***************************************************************************)
\* C5: for every valid Ethiopian date (y, m, d), eth_to_greg(y, m, d)
\* returns a Gregorian date, and eth_from_greg applied to it returns
\* (y, m, d).
C5_EthRoundTrip ==
    (/\ fn = "eth_to_greg"
     /\ AllFit(args)
     /\ args[2][2] \in 1..13
     /\ args[2][2] <= 12 => args[3][2] \in 1..30
     /\ args[2][2] = 13
           => args[3][2] \in 1..(IF EthLeapRule(args[1][2]) THEN 6 ELSE 5))
        => /\ ret.ok
           /\ Len(ret.val) = 3
           /\ eth_from_greg(PyInt(ret.val[1]), PyInt(ret.val[2]), PyInt(ret.val[3]))
                 = Return(Vals(args))

(***************************************************************************)
(* C6                                                                      *)
(***************************************************************************)
\* C6: every date _eth_from_jdn returns has a valid day of month: 1..30 in
\* the months 1..12, and in month 13 1..5, or 1..6 when (year + 1) mod 4 = 0.
C6_ValidDay ==
    (fn = "_eth_from_jdn" /\ ret.ok) =>
        /\ ret.val[2] \in 1..12 => ret.val[3] \in 1..30
        /\ ret.val[2] = 13
              => ret.val[3] \in 1..(IF EthLeapRule(ret.val[1]) THEN 6 ELSE 5)

(***************************************************************************)
(* C7                                                                      *)
(***************************************************************************)
\* What C7 says of a call of _greg_to_jdn: it returns the ordinal day count
\* of the date plus 1721425, 1721426 for 0001-01-01, and the day after gets
\* the next JDN.
C7_OrdinalPlusOffset ==
    /\ ret.ok
    /\ ret.val = <<CountedOrdinal(Vals(args)) + 1721425>>
    /\ args = Date(1, 1, 1) => ret.val = <<1721426>>
    /\ InDateRange(NextDay(Vals(args))) =>
          LET n == NextDay(Vals(args))
          IN  _greg_to_jdn(PyInt(n[1]), PyInt(n[2]), PyInt(n[3]))
                 = Return(<<ret.val[1] + 1>>)

\* C7 (as amended): for every real Gregorian date with 1 <= year <= 9999,
\* _greg_to_jdn returns the proleptic Gregorian ordinal day count of the date
\* plus 1721425; _greg_to_jdn(1, 1, 1) = 1721426 and dates one day apart get
\* JDNs that differ by exactly 1.
C7_OrdinalInRange ==
    (/\ fn = "_greg_to_jdn"
     /\ AllFit(args) /\ RealDate(Vals(args)) /\ InDateRange(Vals(args)))
        => C7_OrdinalPlusOffset

\* C7 (as stated): the same for every real Gregorian date (stated of the
\* years that fit a C int).
C7_OrdinalAnyYear ==
    (fn = "_greg_to_jdn" /\ AllFit(args) /\ RealDate(Vals(args)))
        => C7_OrdinalPlusOffset

C7_Witness ==
    /\ fn = "_greg_to_jdn"
    /\ args = Date(2015, 12, 31)
    /\ ret = Return(<<CountedOrdinal(<<2015, 12, 31>>) + 1721425>>)
    /\ _greg_to_jdn(PyInt(2016), PyInt(1), PyInt(1)) = Return(<<ret.val[1] + 1>>)

(***************************************************************************)
(* C8                                                                      *)
(***************************************************************************)
\* C8: for every accepted jdn the month _eth_from_jdn returns is in 1..13:
\* the day offset n within the Ethiopian year never exceeds 365, so the last
\* days of a year map to month 13 and never to a month 14.
C8_MonthInRange ==
    (fn \in {"_eth_from_jdn", "eth_from_greg"} /\ ret.ok) =>
        /\ ret.val[2] \in 1..13
        /\ fn = "_eth_from_jdn" =>
              /\ EthN(EthR(args[1])) \in 0..365
              /\ EthN(EthR(args[1])) >= 360 => ret.val[2] = 13

C8_Witness ==
    /\ fn = "_eth_from_jdn"
    /\ ret.ok
    /\ EthN(EthR(args[1])) = 365
    /\ ret.val[2] = 13

(***************************************************************************)
(* C9                                                                      *)
(***************************************************************************)
\* C9 (as amended): _eth_from_jdn fails, with the invalid-JDN error, if and
\* only if jdn < 1721425, which is exactly when jdn_to_greg raises its own
\* invalid-JDN error on that jdn; jdn_to_greg fails besides, inside
\* date.fromordinal (ValueError or OverflowError), for jdn = 1721425 and
\* jdn > 5373484, where _eth_from_jdn succeeds.
C9_SameGuard ==
    /\ fn = "_eth_from_jdn" =>
          /\ ~ret.ok <=> Lt(args[1], 1721425)
          /\ ~ret.ok => (ret.exc = "ValueError" /\ ret.msg = InvalidJdn)
          /\ ~ret.ok <=> jdn_to_greg(args[1]).msg = InvalidJdn
          /\ ret.ok =>
                (jdn_to_greg(args[1]).ok <=> Between(args[1], 1721426, 5373484))
    /\ fn = "jdn_to_greg" =>
          (ret.msg = InvalidJdn <=> ~_eth_from_jdn(args[1]).ok)

\* C9 (as stated): _eth_from_jdn fails if and only if jdn_to_greg fails on
\* the same jdn.
C9_SameFailures ==
    fn = "_eth_from_jdn" => (~ret.ok <=> ~jdn_to_greg(args[1]).ok)

C9_Witness ==
    /\ fn = "_eth_from_jdn"
    /\ args = <<PyInt(1721424)>>
    /\ ~ret.ok
    /\ jdn_to_greg(PyInt(1721424)) = ret

(***************************************************************************)
(* C10                                                                     *)
(***************************************************************************)
EthYearOf(jdn) == _eth_from_jdn(jdn).val[1]

\* C10: the JDNs mapped to an Ethiopian year y that lies wholly inside the
\* accepted range form one contiguous run, 366 long when (y + 1) mod 4 = 0
\* and 365 long otherwise, and distinct JDNs never map to the same date.
\* Stated of each accepted jdn j, mapped to year y: the day after j is in year
\* y or y + 1; if j is the first day of y then the len days from j are in y,
\* the day before is in y - 1 and the day after them in y + 1; the 366 days
\* after j get other dates than j, and the days after those a later year.
C10_LeapCycle ==
    (fn = "_eth_from_jdn" /\ ret.ok) =>
        LET j == args[1]
            y == ret.val[1]
            len == IF EthLeapRule(y) THEN 366 ELSE 365
        IN  /\ EthYearOf(Shift(j, 1)) \in {y, y + 1}
            /\ (~Lt(j, 1721426) /\ EthYearOf(Shift(j, -1)) # y) =>
                  /\ EthYearOf(Shift(j, -1)) = y - 1
                  /\ \A i \in 0..(len - 1) : EthYearOf(Shift(j, i)) = y
                  /\ EthYearOf(Shift(j, len)) = y + 1
            /\ \A i \in 1..366 : _eth_from_jdn(Shift(j, i)).val # ret.val
            /\ EthYearOf(Shift(j, 367)) > y

C10_Witness ==
    /\ fn = "_eth_from_jdn"
    /\ ret = Return(<<2007, 1, 2>>)
    /\ EthYearOf(Shift(args[1], -1)) = 2006
    /\ EthYearOf(Shift(args[1], 365)) = 2007
    /\ EthYearOf(Shift(args[1], 366)) = 2008

====
